---- MODULE Spec2Model ----
(***************************************************************************)
(* Model of the extraction task queue of projet/queue.py:                  *)
(* ExtractionTask, PriorityQueue and ExtractionQueue, driven by one        *)
(* caller (Spec, SpecOrder: every public operation runs to its end before  *)
(* the next one starts) or by several threads in thread-safe mode          *)
(* (SpecConc: one step per lock-protected region or unlocked access).      *)
(***************************************************************************)
EXTENDS Integers, Sequences, FiniteSets, TLC

\* ------------------------------------------------------------------ bounds
\* Number of ExtractionTask objects the callers construct (distinct task_id)
\* when every operation of the orchestrator is exercised.
NumTasks == 2
\* Number of ExtractionTask objects when the ordering of the queue is exercised.
NumQueued == 3
\* created_at timestamps are drawn from 1..MaxTime.
MaxTime == 2
\* max_retries of a task is drawn from 0..MaxRetriesBound.
MaxRetriesBound == 2
\* Distinct result payloads (DataFrames) a consumer may submit.
NumResults == 2
\* Distinct failure reasons a consumer may submit.
NumErrors == 1
\* Consumer threads of the thread-safe orchestrator.
NumConsumers == 2
\* Threads that enqueue into a FIFO Queue.
NumEnqueuers == 2
\* Items each of them enqueues.
NumItems == 2
\* max_size of a bounded Queue is drawn from 0..MaxSizeBound.
MaxSizeBound == 2
\* Threads that call the thread-safe orchestrator when its locks are followed.
NumCallers == 2

\* ------------------------------------------------------- program constants
\* TaskPriority values
URGENT == 0
HIGH == 1
NORMAL == 2
LOW == 3
Priorities == {URGENT, HIGH, NORMAL, LOW}

\* TaskStatus values
PENDING == "pending"
PROCESSING == "processing"
COMPLETED == "completed"
FAILED == "failed"
CANCELLED == "cancelled"
TaskStatus == {PENDING, PROCESSING, COMPLETED, FAILED, CANCELLED}

\* Python's None for an optional task, result or error message.
None == 0
\* Python's None where a TaskStatus is expected.
NotFound == "none"

\* A task object is named by its task_id; ids are distinct.
Tasks == 1..NumTasks
QueuedTasks == 1..NumQueued
Results == 1..NumResults
Errors == 1..NumErrors
Consumers == 1..NumConsumers
Enqueuers == 1..NumEnqueuers
Callers == 1..NumCallers

VARIABLES
    pool,              \* the ExtractionTask objects the callers have constructed
    priority,          \* ExtractionTask.priority (.value), per task
    created_at,        \* ExtractionTask.created_at, per task
    max_retries,       \* ExtractionTask.max_retries, per task
    status,            \* ExtractionTask.status, per task
    retry_count,       \* ExtractionTask.retry_count, per task
    error_message,     \* ExtractionTask.error_message, per task (None or a reason)
    result,            \* ExtractionTask.result, per task (None or a payload)
    items,             \* ExtractionQueue.tasks_queue.items (PriorityQueue.items)
    processing_tasks,  \* keys of ExtractionQueue.processing_tasks
    completed_tasks,   \* keys of ExtractionQueue.completed_tasks
    failed_tasks,      \* keys of ExtractionQueue.failed_tasks
    last,              \* the last public call: its name, arguments and return value
    enqOrder,          \* history: the queued tasks in the order they were enqueued
    drained,           \* history: tasks returned by the get_next_task calls in a row
    known,             \* history: ids added and not cleared since
    submitted,         \* history: result passed to the successful complete_task, per id
    prod,              \* producer thread: where it is in add_task, and the task
    cons,              \* consumer threads: where each is, its task, attempts left
    obs,               \* observer thread: where it is in get_stats / get_task_status
    handed,            \* history: times get_next_task returned the task, per id
    thread_safe,       \* PriorityQueue.thread_safe of a queue used on its own
    iterator,          \* the iterator returned by PriorityQueue.__iter__
    fifo,              \* Queue.items: the deque of a FIFO Queue
    max_size,          \* Queue.max_size (NoLimit for None)
    enqueued,          \* enqueuer threads of the Queue: enqueue calls made, each
    attempts,          \* dequeuer thread of the Queue: dequeue calls made
    accepted,          \* history: items for which Queue.enqueue returned True
    received,          \* the dequeuer's results list
    holder,            \* the thread holding each threading.Lock (None: free)
    caller             \* threads of the lock model: operation and steps left

taskVars == <<status, retry_count, error_message, result>>
attrVars == <<pool, priority, created_at, max_retries>>
collVars == <<items, processing_tasks, completed_tasks, failed_tasks>>
histVars == <<enqOrder, drained, known, submitted>>
heldVars == <<enqOrder, known, submitted>>
concVars == <<prod, cons, obs, handed>>
pqVars == <<thread_safe, iterator>>
fifoVars == <<fifo, max_size, enqueued, attempts, accepted, received>>
lockVars == <<holder, caller>>
extVars == <<pqVars, fifoVars, lockVars>>
vars == <<pool, priority, created_at, max_retries, status, retry_count, error_message,
          result, items, processing_tasks, completed_tasks, failed_tasks, last,
          enqOrder, drained, known, submitted, prod, cons, obs, handed,
          thread_safe, iterator, fifo, max_size, enqueued, attempts, accepted,
          received, holder, caller>>

\* ------------------------------------------------------------ ExtractionTask
\* Variant of __lt__ that compares the priority alone.
TaskLtPriorityOnly(a, b) == priority[a] < priority[b]

\* ExtractionTask.__lt__
TaskLt(a, b) ==
    IF priority[a] # priority[b]
    THEN priority[a] < priority[b]
    ELSE created_at[a] < created_at[b]

\* ------------------------------------------------------------- PriorityQueue
\* Variant of the insertion test with <= in place of <.
InsertBeforeOrEqual(item, existing_item) == ~TaskLt(existing_item, item)

\* The test of the insertion loop: insert before the first existing item
\* that the new item is strictly less than.
InsertBefore(item, existing_item) == TaskLt(item, existing_item)

\* Variant of the insertion index that always inserts at the front.
InsertPosFront(s, item) == 1

\* Index at which _enqueue_unsafe inserts (Len+1: append).
InsertPos(s, item) ==
    IF \E i \in 1..Len(s) : InsertBefore(item, s[i])
    THEN CHOOSE i \in 1..Len(s) :
            /\ InsertBefore(item, s[i])
            /\ \A j \in 1..(i - 1) : ~InsertBefore(item, s[j])
    ELSE Len(s) + 1

\* Variant of the enqueue that appends whatever the key of the item.
EnqueueAppend(s, item) == Append(s, item)

\* PriorityQueue._enqueue_unsafe
Enqueue(s, item) ==
    LET p == InsertPos(s, item)
    IN  SubSeq(s, 1, p - 1) \o <<item>> \o SubSeq(s, p, Len(s))

\* Variant of the dequeue that reads the front item without popping it.
DequeueRestKeep(s) == s

\* Variant of the dequeue that takes the item at the back of the list.
DequeueItemLast(s) == IF Len(s) = 0 THEN None ELSE s[Len(s)]

\* PriorityQueue._dequeue_unsafe: the item returned (None when empty) ...
DequeueItem(s) == IF Len(s) = 0 THEN None ELSE Head(s)
\* ... and the list it leaves.
DequeueRest(s) == IF Len(s) = 0 THEN s ELSE Tail(s)

\* ------------------------------------------------------------------ helpers
Range(s) == {s[i] : i \in 1..Len(s)}
Remove(s, x) == SelectSeq(s, LAMBDA y : y # x)

Call(op, id, ok, val, retry) ==
    [op |-> op, id |-> id, ok |-> ok, val |-> val, retry |-> retry, st |-> NotFound]

\* Python's None where a max_size is expected.
NoLimit == -1

\* No iterator has been made.
NoIterator == [live |-> FALSE, snap |-> <<>>, idx |-> 0, start |-> <<>>,
               out |-> <<>>, state |-> "none"]

\* No standalone PriorityQueue or Queue is in use and no lock is modelled.
ExtIdle ==
    /\ thread_safe = FALSE
    /\ iterator = NoIterator
    /\ fifo = <<>>
    /\ max_size = NoLimit
    /\ enqueued = <<>>
    /\ attempts = 0
    /\ accepted = <<>>
    /\ received = <<>>
    /\ holder = <<>>
    /\ caller = <<>>

\* No thread has called the orchestrator yet.
ObsIdle ==
    [pc |-> "idle", op |-> "none", id |-> None, n |-> 0,
     pending |-> 0, processing |-> 0, completed |-> 0, failed |-> 0, total |-> 0,
     st |-> NotFound, before |-> 0, after |-> 0, wasKnown |-> FALSE]

ThreadsIdle ==
    /\ prod = [pc |-> "idle", task |-> None]
    /\ cons = [c \in Consumers |-> [pc |-> "idle", task |-> None, left |-> 0]]
    /\ obs = ObsIdle
    /\ handed = [t \in pool |-> 0]

\* --------------------------------------------------------------------- Init
Init ==
    /\ pool = Tasks
    /\ priority \in [Tasks -> Priorities]
    /\ created_at \in [Tasks -> 1..MaxTime]
    /\ max_retries \in [Tasks -> 0..MaxRetriesBound]
    /\ status = [t \in Tasks |-> PENDING]
    /\ retry_count = [t \in Tasks |-> 0]
    /\ error_message = [t \in Tasks |-> None]
    /\ result = [t \in Tasks |-> None]
    /\ items = <<>>
    /\ processing_tasks = {}
    /\ completed_tasks = {}
    /\ failed_tasks = {}
    /\ last = Call("init", None, FALSE, None, FALSE)
    /\ enqOrder = <<>>
    /\ drained = <<>>
    /\ known = {}
    /\ submitted = [t \in Tasks |-> None]
    /\ ThreadsIdle
    /\ ExtIdle

\* ---------------------------------------------------------- ExtractionQueue
\* Variant of the status test that accepts every task.
AddAcceptsAny(t) == TRUE

\* Variant of the status test that only rejects finished tasks.
AddAcceptsNotDone(t) == status[t] \notin {COMPLETED, FAILED}

\* The status test of add_task.
AddAccepts(t) == status[t] = PENDING

\* ExtractionQueue.add_task(task).  Task ids are unique (the caller's
\* responsibility): a task that is already queued is not submitted again.
add_task(t) ==
    /\ t \notin Range(items)
    /\ IF ~AddAccepts(t)
       THEN /\ last' = Call("add_task", t, FALSE, None, FALSE)
            /\ UNCHANGED <<attrVars, taskVars, collVars, heldVars>>
            /\ drained' = <<>>
       ELSE /\ items' = Enqueue(items, t)
            /\ enqOrder' = Append(enqOrder, t)
            /\ drained' = <<>>
            /\ known' = known \cup {t}
            /\ last' = Call("add_task", t, TRUE, None, FALSE)
            /\ UNCHANGED <<attrVars, taskVars, processing_tasks, completed_tasks,
                           failed_tasks, submitted>>

\* Variant of get_next_task that marks the task CANCELLED.
get_next_taskCancels ==
    LET task == DequeueItem(items)
    IN  IF task = None
        THEN /\ last' = Call("get_next_task", None, FALSE, None, FALSE)
             /\ UNCHANGED <<attrVars, taskVars, collVars, histVars>>
        ELSE /\ items' = DequeueRest(items)
             /\ status' = [status EXCEPT ![task] = CANCELLED]
             /\ processing_tasks' = processing_tasks \cup {task}
             /\ enqOrder' = Remove(enqOrder, task)
             /\ drained' = Append(drained, task)
             /\ last' = Call("get_next_task", task, TRUE, None, FALSE)
             /\ UNCHANGED <<attrVars, retry_count, error_message, result,
                            completed_tasks, failed_tasks, known, submitted>>

\* ExtractionQueue.get_next_task()
get_next_task ==
    LET task == DequeueItem(items)
    IN  IF task = None
        THEN /\ last' = Call("get_next_task", None, FALSE, None, FALSE)
             /\ UNCHANGED <<attrVars, taskVars, collVars, histVars>>
        ELSE /\ items' = DequeueRest(items)
             /\ status' = [status EXCEPT ![task] = PROCESSING]
             /\ processing_tasks' = processing_tasks \cup {task}
             /\ enqOrder' = Remove(enqOrder, task)
             /\ drained' = Append(drained, task)
             /\ last' = Call("get_next_task", task, TRUE, None, FALSE)
             /\ UNCHANGED <<attrVars, retry_count, error_message, result,
                            completed_tasks, failed_tasks, known, submitted>>

\* Variant of the membership test that also accepts a completed id.
CompleteAcceptsHeld(task_id) == task_id \in processing_tasks \cup completed_tasks

\* Variant of the membership test that looks in the completed map instead.
CompleteAcceptsDone(task_id) == task_id \in completed_tasks

\* The membership test of _complete_task_unsafe.
CompleteAccepts(task_id) == task_id \in processing_tasks

\* ExtractionQueue.complete_task(task_id, result)
complete_task(t, r) ==
    IF ~CompleteAccepts(t)
    THEN /\ last' = Call("complete_task", t, FALSE, r, FALSE)
         /\ UNCHANGED <<attrVars, taskVars, collVars, heldVars>>
         /\ drained' = <<>>
    ELSE /\ processing_tasks' = processing_tasks \ {t}
         /\ status' = [status EXCEPT ![t] = COMPLETED]
         /\ result' = [result EXCEPT ![t] = r]
         /\ completed_tasks' = completed_tasks \cup {t}
         /\ submitted' = [submitted EXCEPT ![t] = r]
         /\ last' = Call("complete_task", t, TRUE, r, FALSE)
         /\ drained' = <<>>
         /\ UNCHANGED <<attrVars, retry_count, error_message, items, failed_tasks,
                        enqOrder, known>>

\* Variant of the membership test that also accepts a task still queued.
FailAcceptsQueued(task_id) == task_id \in processing_tasks \cup Range(items)

\* The membership test of _fail_task_unsafe.
FailAccepts(task_id) == task_id \in processing_tasks

\* Variant of the retry test with <= in place of <.
RetryEligibleInclusive(retry, count, maxr) == retry /\ count <= maxr

\* Variant of the retry test that ignores the caller's retry flag.
RetryEligibleAnyFlag(retry, count, maxr) == count < maxr

\* The retry test of _fail_task_unsafe, on the incremented retry_count.
RetryEligible(retry, count, maxr) == retry /\ count < maxr

\* ExtractionQueue.fail_task(task_id, error_message, retry)
fail_task(t, e, retry) ==
    IF ~FailAccepts(t)
    THEN /\ last' = Call("fail_task", t, FALSE, e, retry)
         /\ UNCHANGED <<attrVars, taskVars, collVars, heldVars>>
         /\ drained' = <<>>
    ELSE LET count == retry_count[t] + 1
         IN  /\ processing_tasks' = processing_tasks \ {t}
             /\ error_message' = [error_message EXCEPT ![t] = e]
             /\ retry_count' = [retry_count EXCEPT ![t] = count]
             /\ IF RetryEligible(retry, count, max_retries[t])
                THEN /\ status' = [status EXCEPT ![t] = PENDING]
                     /\ items' = Enqueue(items, t)
                     /\ enqOrder' = Append(enqOrder, t)
                     /\ drained' = <<>>
                     /\ last' = Call("fail_task", t, TRUE, e, retry)
                     /\ UNCHANGED failed_tasks
                ELSE /\ status' = [status EXCEPT ![t] = FAILED]
                     /\ failed_tasks' = failed_tasks \cup {t}
                     /\ last' = Call("fail_task", t, FALSE, e, retry)
                     /\ drained' = <<>>
                     /\ UNCHANGED <<items, enqOrder>>
             /\ UNCHANGED <<attrVars, result, completed_tasks, known, submitted>>

\* Variant of the lookup that reads the task's field without the map test.
TaskResultField(task_id) == result[task_id]

\* ExtractionQueue.get_task_result(task_id): the value returned.
TaskResult(task_id) ==
    IF task_id \in completed_tasks THEN result[task_id] ELSE None

\* ExtractionQueue.get_task_result(task_id)
get_task_result(t) ==
    /\ last' = Call("get_task_result", t, FALSE, TaskResult(t), FALSE)
    /\ UNCHANGED <<attrVars, taskVars, collVars, heldVars>>
    /\ drained' = <<>>

\* Variant of the status lookup that leaves out the scan of the pending queue.
TaskStatusOfMaps(task_id) ==
    IF task_id \in processing_tasks \cup completed_tasks \cup failed_tasks
    THEN status[task_id]
    ELSE NotFound

\* ExtractionQueue.get_task_status(task_id): the value returned.
TaskStatusOf(task_id) ==
    IF task_id \in processing_tasks THEN status[task_id]
    ELSE IF task_id \in completed_tasks THEN status[task_id]
    ELSE IF task_id \in failed_tasks THEN status[task_id]
    ELSE IF Len(items) # 0 /\ \E i \in 1..Len(items) : items[i] = task_id
         THEN status[task_id]
         ELSE NotFound

\* ExtractionQueue.get_task_status(task_id)
get_task_status(t) ==
    /\ last' = [Call("get_task_status", t, FALSE, None, FALSE)
                    EXCEPT !.st = TaskStatusOf(t)]
    /\ UNCHANGED <<attrVars, taskVars, collVars, heldVars>>
    /\ drained' = <<>>

\* ExtractionQueue.get_stats(): the dictionary returned to a serial caller.
Stats ==
    [pending |-> Len(items),
     processing |-> Cardinality(processing_tasks),
     completed |-> Cardinality(completed_tasks),
     failed |-> Cardinality(failed_tasks),
     total |-> Len(items) + Cardinality(processing_tasks)
                + Cardinality(completed_tasks) + Cardinality(failed_tasks)]

\* Variant of clear that leaves the processing map as it is.
clearKeepsProcessing ==
    /\ items' = <<>>
    /\ completed_tasks' = {}
    /\ failed_tasks' = {}
    /\ enqOrder' = <<>>
    /\ drained' = <<>>
    /\ known' = {}
    /\ submitted' = [t \in pool |-> None]
    /\ last' = Call("clear", None, FALSE, None, FALSE)
    /\ UNCHANGED <<attrVars, taskVars, processing_tasks>>

\* ExtractionQueue.clear()
clear ==
    /\ items' = <<>>
    /\ completed_tasks' = {}
    /\ failed_tasks' = {}
    /\ processing_tasks' = {}
    /\ enqOrder' = <<>>
    /\ drained' = <<>>
    /\ known' = {}
    /\ submitted' = [t \in pool |-> None]
    /\ last' = Call("clear", None, FALSE, None, FALSE)
    /\ UNCHANGED <<attrVars, taskVars>>

Next ==
    \/ \E t \in pool : add_task(t) /\ UNCHANGED <<concVars, extVars>>
    \/ get_next_task /\ UNCHANGED <<concVars, extVars>>
    \/ \E t \in pool, r \in Results : complete_task(t, r) /\ UNCHANGED <<concVars, extVars>>
    \/ \E t \in pool, e \in Errors, retry \in BOOLEAN :
            fail_task(t, e, retry) /\ UNCHANGED <<concVars, extVars>>
    \/ \E t \in pool : get_task_result(t) /\ UNCHANGED <<concVars, extVars>>
    \/ \E t \in pool : get_task_status(t) /\ UNCHANGED <<concVars, extVars>>
    \/ clear /\ UNCHANGED <<concVars, extVars>>

Spec == Init /\ [][Next]_vars

\* The default max_retries of an ExtractionTask.
DefaultMaxRetries == 3

\* Ordering of the queue: a larger pool of tasks with any priority and
\* created_at and the default retry budget, submitted, handed out and
\* failed with retry requested.
InitOrder ==
    /\ pool = QueuedTasks
    /\ priority \in [QueuedTasks -> Priorities]
    /\ created_at \in [QueuedTasks -> 1..MaxTime]
    /\ max_retries = [t \in QueuedTasks |-> DefaultMaxRetries]
    /\ status = [t \in QueuedTasks |-> PENDING]
    /\ retry_count = [t \in QueuedTasks |-> 0]
    /\ error_message = [t \in QueuedTasks |-> None]
    /\ result = [t \in QueuedTasks |-> None]
    /\ items = <<>>
    /\ processing_tasks = {}
    /\ completed_tasks = {}
    /\ failed_tasks = {}
    /\ last = Call("init", None, FALSE, None, FALSE)
    /\ enqOrder = <<>>
    /\ drained = <<>>
    /\ known = {}
    /\ submitted = [t \in QueuedTasks |-> None]
    /\ ThreadsIdle
    /\ ExtIdle

NextOrder ==
    \/ \E t \in pool : add_task(t) /\ UNCHANGED <<concVars, extVars>>
    \/ get_next_task /\ UNCHANGED <<concVars, extVars>>
    \/ \E t \in pool, e \in Errors : fail_task(t, e, TRUE) /\ UNCHANGED <<concVars, extVars>>

SpecOrder == InitOrder /\ [][NextOrder]_vars

\* ------------------------------------------- thread-safe mode, several threads
\* ExtractionQueue(thread_safe=True) called by a producer thread (add_task),
\* consumer threads (get_next_task, then complete_task on the task received)
\* and an observer thread (get_stats, get_task_status).  A step is a region
\* that runs under one lock (the queue's lock or the orchestrator's lock), or
\* one access made without any lock.  The histories of the serial caller
\* (enqOrder, drained, submitted, last) are not kept by the threads, except
\* by complete_task.
serialHist == <<enqOrder, drained, submitted>>

\* Python's KeyError where a TaskStatus is expected.
KeyErrorRaised == "KeyError"

\* Each consumer makes as many get_next_task attempts as there are tasks.
Attempts == NumTasks

\* The tasks are constructed one after the other with the default priority
\* and max_retries; no thread has called the orchestrator yet.
InitConc ==
    /\ pool = Tasks
    /\ priority = [t \in Tasks |-> NORMAL]
    /\ created_at = [t \in Tasks |-> t]
    /\ max_retries = [t \in Tasks |-> DefaultMaxRetries]
    /\ status = [t \in Tasks |-> PENDING]
    /\ retry_count = [t \in Tasks |-> 0]
    /\ error_message = [t \in Tasks |-> None]
    /\ result = [t \in Tasks |-> None]
    /\ items = <<>>
    /\ processing_tasks = {}
    /\ completed_tasks = {}
    /\ failed_tasks = {}
    /\ last = Call("init", None, FALSE, None, FALSE)
    /\ enqOrder = <<>>
    /\ drained = <<>>
    /\ known = {}
    /\ submitted = [t \in Tasks |-> None]
    /\ prod = [pc |-> "idle", task |-> None]
    /\ cons = [c \in Consumers |-> [pc |-> "idle", task |-> None, left |-> Attempts]]
    /\ obs = ObsIdle
    /\ handed = [t \in Tasks |-> 0]
    /\ ExtIdle

\* Producer, add_task: the status test, made without a lock, on a task that
\* was not submitted before (task ids are distinct).
add_task_check(t) ==
    /\ prod.pc = "idle"
    /\ t \notin known
    /\ prod' = IF AddAccepts(t) THEN [pc |-> "checked", task |-> t] ELSE prod
    /\ UNCHANGED <<extVars, attrVars, taskVars, collVars, histVars, last, cons, obs, handed>>

\* Producer, add_task: tasks_queue.enqueue(task) under the queue's lock, and
\* the return.
add_task_enqueue ==
    /\ prod.pc = "checked"
    /\ items' = Enqueue(items, prod.task)
    /\ known' = known \cup {prod.task}
    /\ prod' = [pc |-> "idle", task |-> None]
    /\ UNCHANGED <<extVars, attrVars, taskVars, processing_tasks, completed_tasks, failed_tasks,
                   serialHist, last, cons, obs, handed>>

\* Consumer, get_next_task: tasks_queue.dequeue() under the queue's lock.
\* With an empty queue the call returns None and the attempt is over.
get_next_task_dequeue(c) ==
    LET task == DequeueItem(items)
    IN  /\ cons[c].pc = "idle"
        /\ cons[c].left > 0
        /\ IF task = None
           THEN /\ cons' = [cons EXCEPT ![c].left = @ - 1]
                /\ UNCHANGED <<items, handed>>
           ELSE /\ items' = DequeueRest(items)
                /\ cons' = [cons EXCEPT ![c] = [pc |-> "dequeued", task |-> task,
                                                left |-> @.left - 1]]
                /\ handed' = [handed EXCEPT ![task] = @ + 1]
        /\ UNCHANGED <<extVars, attrVars, taskVars, processing_tasks, completed_tasks,
                       failed_tasks, histVars, last, prod, obs>>

\* Consumer, get_next_task: task.status = PROCESSING, without a lock.
get_next_task_mark(c) ==
    /\ cons[c].pc = "dequeued"
    /\ status' = [status EXCEPT ![cons[c].task] = PROCESSING]
    /\ cons' = [cons EXCEPT ![c].pc = "marked"]
    /\ UNCHANGED <<extVars, attrVars, retry_count, error_message, result, collVars, histVars,
                   last, prod, obs, handed>>

\* Consumer, get_next_task: processing_tasks[task_id] = task under the
\* orchestrator's lock, and the return.
get_next_task_record(c) ==
    /\ cons[c].pc = "marked"
    /\ processing_tasks' = processing_tasks \cup {cons[c].task}
    /\ cons' = [cons EXCEPT ![c].pc = "received"]
    /\ UNCHANGED <<extVars, attrVars, taskVars, items, completed_tasks, failed_tasks, histVars,
                   last, prod, obs, handed>>

\* Consumer: complete_task(task.task_id, df) on the task it received, the
\* whole call under the orchestrator's lock.
consumer_complete(c, r) ==
    /\ cons[c].pc = "received"
    /\ complete_task(cons[c].task, r)
    /\ cons' = [cons EXCEPT ![c] = [pc |-> "idle", task |-> None, left |-> @.left]]
    /\ UNCHANGED <<prod, obs, handed, extVars>>

\* What the n-th count getter called by get_stats returns: get_pending_count
\* (under the queue's lock), then get_processing_count, get_completed_count
\* and get_failed_count (each under the orchestrator's lock).
CountRead(n) ==
    CASE n = 1 -> Len(items)
      [] n = 2 -> Cardinality(processing_tasks)
      [] n = 3 -> Cardinality(completed_tasks)
      [] n = 4 -> Cardinality(failed_tasks)

obsFrame == <<attrVars, taskVars, collVars, histVars, last, prod, cons, handed, extVars>>

\* Observer: get_stats() is called.
get_stats_call ==
    /\ obs.pc \in {"idle", "returned"}
    /\ obs' = [ObsIdle EXCEPT !.pc = "stats", !.op = "get_stats",
                              !.before = Cardinality(known)]
    /\ UNCHANGED obsFrame

\* Observer, get_stats: the next of the eight count getters the dictionary
\* display calls, in evaluation order: the four fields, then the four terms
\* of the total.
get_stats_read ==
    /\ obs.pc = "stats"
    /\ obs.n < 8
    /\ LET n == obs.n + 1
       IN  obs' = CASE n = 1 -> [obs EXCEPT !.n = n, !.pending = CountRead(1)]
                    [] n = 2 -> [obs EXCEPT !.n = n, !.processing = CountRead(2)]
                    [] n = 3 -> [obs EXCEPT !.n = n, !.completed = CountRead(3)]
                    [] n = 4 -> [obs EXCEPT !.n = n, !.failed = CountRead(4)]
                    [] OTHER -> [obs EXCEPT !.n = n, !.total = @ + CountRead(n - 4)]
    /\ UNCHANGED obsFrame

\* Observer, get_stats: the dictionary is returned.
get_stats_return ==
    /\ obs.pc = "stats"
    /\ obs.n = 8
    /\ obs' = [obs EXCEPT !.pc = "returned", !.after = Cardinality(known)]
    /\ UNCHANGED obsFrame

\* Observer: get_task_status(task_id) is called.  No step of it takes the
\* orchestrator's lock.
get_task_status_call(t) ==
    /\ obs.pc \in {"idle", "returned"}
    /\ obs' = [ObsIdle EXCEPT !.pc = "in_processing", !.op = "get_task_status",
                              !.id = t, !.wasKnown = (t \in known)]
    /\ UNCHANGED obsFrame

\* Observer, get_task_status: the membership tests on processing_tasks,
\* completed_tasks and failed_tasks, one at a time.
get_task_status_test ==
    /\ obs.pc \in {"in_processing", "in_completed", "in_failed"}
    /\ obs' = CASE obs.pc = "in_processing" ->
                     [obs EXCEPT !.pc = IF obs.id \in processing_tasks
                                        THEN "get_processing" ELSE "in_completed"]
                [] obs.pc = "in_completed" ->
                     [obs EXCEPT !.pc = IF obs.id \in completed_tasks
                                        THEN "get_completed" ELSE "in_failed"]
                [] obs.pc = "in_failed" ->
                     [obs EXCEPT !.pc = IF obs.id \in failed_tasks
                                        THEN "get_failed" ELSE "is_empty"]
    /\ UNCHANGED obsFrame

\* Observer, get_task_status: the subscript on the map whose membership test
\* succeeded; KeyError when the id has left the map since.
get_task_status_fetch ==
    /\ obs.pc \in {"get_processing", "get_completed", "get_failed"}
    /\ LET map == CASE obs.pc = "get_processing" -> processing_tasks
                    [] obs.pc = "get_completed" -> completed_tasks
                    [] obs.pc = "get_failed" -> failed_tasks
       IN  obs' = IF obs.id \in map
                  THEN [obs EXCEPT !.pc = "read_status"]
                  ELSE [obs EXCEPT !.pc = "returned", !.st = KeyErrorRaised]
    /\ UNCHANGED obsFrame

\* Observer, get_task_status: tasks_queue.is_empty(), then the iteration over
\* a copy of the pending list, each under the queue's lock; None is returned
\* when the queue is empty or the copy does not hold the id.
get_task_status_scan ==
    /\ obs.pc \in {"is_empty", "iterate"}
    /\ obs' = CASE obs.pc = "is_empty" ->
                     IF Len(items) = 0
                     THEN [obs EXCEPT !.pc = "returned", !.st = NotFound]
                     ELSE [obs EXCEPT !.pc = "iterate"]
                [] obs.pc = "iterate" ->
                     IF \E i \in 1..Len(items) : items[i] = obs.id
                     THEN [obs EXCEPT !.pc = "read_status"]
                     ELSE [obs EXCEPT !.pc = "returned", !.st = NotFound]
    /\ UNCHANGED obsFrame

\* Observer, get_task_status: the read of the status of the task found, and
\* the return.
get_task_status_read ==
    /\ obs.pc = "read_status"
    /\ obs' = [obs EXCEPT !.pc = "returned", !.st = status[obs.id]]
    /\ UNCHANGED obsFrame

NextConc ==
    \/ \E t \in pool : add_task_check(t)
    \/ add_task_enqueue
    \/ \E c \in Consumers : get_next_task_dequeue(c)
    \/ \E c \in Consumers : get_next_task_mark(c)
    \/ \E c \in Consumers : get_next_task_record(c)
    \/ \E c \in Consumers, r \in Results : consumer_complete(c, r)
    \/ get_stats_call
    \/ get_stats_read
    \/ get_stats_return
    \/ \E t \in pool : get_task_status_call(t)
    \/ get_task_status_test
    \/ get_task_status_fetch
    \/ get_task_status_scan
    \/ get_task_status_read

SpecConc == InitConc /\ [][NextConc]_vars

\* ------------------------------------------------------- the consumer loop
\* One consumer that takes a task with get_next_task and resolves it with
\* complete_task or fail_task before it asks for the next one, while each
\* task of the pool is added at most once (queue_examples.py, example 4).
InitLoop ==
    /\ pool = Tasks
    /\ priority = [t \in Tasks |-> NORMAL]
    /\ created_at = [t \in Tasks |-> t]
    /\ max_retries \in [Tasks -> 0..MaxRetriesBound]
    /\ status = [t \in Tasks |-> PENDING]
    /\ retry_count = [t \in Tasks |-> 0]
    /\ error_message = [t \in Tasks |-> None]
    /\ result = [t \in Tasks |-> None]
    /\ items = <<>>
    /\ processing_tasks = {}
    /\ completed_tasks = {}
    /\ failed_tasks = {}
    /\ last = Call("init", None, FALSE, None, FALSE)
    /\ enqOrder = <<>>
    /\ drained = <<>>
    /\ known = {}
    /\ submitted = [t \in Tasks |-> None]
    /\ ThreadsIdle
    /\ ExtIdle

loopFrame == <<prod, cons, obs, extVars>>

\* The producer adds a task it has not added before.
loop_add(t) ==
    /\ t \notin known
    /\ add_task(t)
    /\ UNCHANGED <<loopFrame, handed>>

\* The consumer, holding no task, calls get_next_task.
loop_get ==
    /\ processing_tasks = {}
    /\ get_next_task
    /\ handed' = IF DequeueItem(items) = None
                 THEN handed
                 ELSE [handed EXCEPT ![DequeueItem(items)] = @ + 1]
    /\ UNCHANGED loopFrame

\* The consumer resolves the task it holds with complete_task.
loop_complete(t, r) ==
    /\ t \in processing_tasks
    /\ complete_task(t, r)
    /\ UNCHANGED <<loopFrame, handed>>

\* The consumer resolves the task it holds with fail_task.
loop_fail(t, e, retry) ==
    /\ t \in processing_tasks
    /\ fail_task(t, e, retry)
    /\ UNCHANGED <<loopFrame, handed>>

\* A step of the consumer.
ConsumerStep ==
    \/ loop_get
    \/ \E t \in pool, r \in Results : loop_complete(t, r)
    \/ \E t \in pool, e \in Errors, retry \in BOOLEAN : loop_fail(t, e, retry)

NextLoop ==
    \/ \E t \in pool : loop_add(t)
    \/ loop_get
    \/ \E t \in pool, r \in Results : loop_complete(t, r)
    \/ \E t \in pool, e \in Errors, retry \in BOOLEAN : loop_fail(t, e, retry)

SpecLoop == InitLoop /\ [][NextLoop]_vars

\* The consumer keeps running: it is not stopped for ever while it has a
\* call to make.
SpecLoopFair == SpecLoop /\ WF_vars(ConsumerStep)

\* ------------------------------------------- a PriorityQueue used on its own
\* A PriorityQueue of tasks, built with thread_safe False or True, and its
\* public operations; in thread-safe mode every operation runs under the
\* queue's lock and is one step.  The tasks are constructed one after the
\* other; the other fields of the tasks play no part.
coreFrame == <<taskVars, processing_tasks, completed_tasks, failed_tasks, histVars,
               concVars, fifoVars, lockVars>>

InitPQ ==
    /\ pool = QueuedTasks
    /\ priority \in [QueuedTasks -> Priorities]
    /\ created_at = [t \in QueuedTasks |-> t]
    /\ max_retries = [t \in QueuedTasks |-> DefaultMaxRetries]
    /\ status = [t \in QueuedTasks |-> PENDING]
    /\ retry_count = [t \in QueuedTasks |-> 0]
    /\ error_message = [t \in QueuedTasks |-> None]
    /\ result = [t \in QueuedTasks |-> None]
    /\ items = <<>>
    /\ processing_tasks = {}
    /\ completed_tasks = {}
    /\ failed_tasks = {}
    /\ last = Call("init", None, FALSE, None, FALSE)
    /\ enqOrder = <<>>
    /\ drained = <<>>
    /\ known = {}
    /\ submitted = [t \in QueuedTasks |-> None]
    /\ ThreadsIdle
    /\ thread_safe \in BOOLEAN
    /\ iterator = NoIterator
    /\ fifo = <<>>
    /\ max_size = NoLimit
    /\ enqueued = <<>>
    /\ attempts = 0
    /\ accepted = <<>>
    /\ received = <<>>
    /\ holder = <<>>
    /\ caller = <<>>

\* PriorityQueue.enqueue(item), for a task that is not in the queue.
pq_enqueue(t) ==
    /\ t \notin Range(items)
    /\ items' = Enqueue(items, t)
    /\ last' = Call("enqueue", t, TRUE, None, FALSE)
    /\ UNCHANGED <<attrVars, coreFrame, pqVars>>

\* PriorityQueue.dequeue()
pq_dequeue ==
    /\ items' = DequeueRest(items)
    /\ last' = Call("dequeue", DequeueItem(items), DequeueItem(items) # None, None, FALSE)
    /\ UNCHANGED <<attrVars, coreFrame, pqVars>>

\* Variant of the peek that reads the back of the list.
PeekItemLast(s) == IF Len(s) > 0 THEN s[Len(s)] ELSE None

\* PriorityQueue._peek_unsafe: the item returned (None when empty).
PeekItem(s) == IF Len(s) > 0 THEN s[1] ELSE None

\* PriorityQueue.peek()
pq_peek ==
    /\ last' = Call("peek", PeekItem(items), PeekItem(items) # None, None, FALSE)
    /\ UNCHANGED <<attrVars, coreFrame, pqVars, items>>

\* PriorityQueue.clear()
pq_clear ==
    /\ items' = <<>>
    /\ last' = Call("clear", None, FALSE, None, FALSE)
    /\ UNCHANGED <<attrVars, coreFrame, pqVars>>

\* PriorityQueue.__iter__(): with a lock, an iterator over a copy of the list
\* made under the lock; without, an iterator over the list itself.
pq_iter ==
    /\ iterator' = [live |-> ~thread_safe,
                    snap |-> IF thread_safe THEN items ELSE <<>>,
                    idx |-> 0, start |-> items, out |-> <<>>, state |-> "active"]
    /\ UNCHANGED <<attrVars, coreFrame, thread_safe, items, last>>

\* The list the iterator reads: the queue's own list or its copy.
IterSource == IF iterator.live THEN items ELSE iterator.snap

\* next() on the list iterator: the item at its index in the list as it is
\* now, or StopIteration, for good, once the index is past the end.
pq_next ==
    /\ iterator.state = "active"
    /\ iterator' = IF iterator.idx < Len(IterSource)
                   THEN [iterator EXCEPT !.idx = @ + 1,
                                         !.out = Append(@, IterSource[iterator.idx + 1])]
                   ELSE [iterator EXCEPT !.state = "exhausted"]
    /\ UNCHANGED <<attrVars, coreFrame, thread_safe, items, last>>

NextPQ ==
    \/ \E t \in pool : pq_enqueue(t)
    \/ pq_dequeue
    \/ pq_peek
    \/ pq_clear
    \/ pq_iter
    \/ pq_next

SpecPQ == InitPQ /\ [][NextPQ]_vars

\* ------------------------------------------------------------ the FIFO Queue
\* A thread-safe Queue, unbounded or built with a max_size, with threads
\* that enqueue distinct items and one thread that makes as many dequeue
\* attempts as there are items and keeps what it receives.  enqueue and
\* dequeue each run under the queue's lock: one step each.
TotalItems == NumEnqueuers * NumItems

\* The k-th item of enqueuer e.
ItemOf(e, k) == (e - 1) * NumItems + k

fifoFrame == <<attrVars, taskVars, collVars, histVars, concVars, pqVars, lockVars>>

InitFifo ==
    /\ pool = Tasks
    /\ priority = [t \in Tasks |-> NORMAL]
    /\ created_at = [t \in Tasks |-> t]
    /\ max_retries = [t \in Tasks |-> DefaultMaxRetries]
    /\ status = [t \in Tasks |-> PENDING]
    /\ retry_count = [t \in Tasks |-> 0]
    /\ error_message = [t \in Tasks |-> None]
    /\ result = [t \in Tasks |-> None]
    /\ items = <<>>
    /\ processing_tasks = {}
    /\ completed_tasks = {}
    /\ failed_tasks = {}
    /\ last = Call("init", None, FALSE, None, FALSE)
    /\ enqOrder = <<>>
    /\ drained = <<>>
    /\ known = {}
    /\ submitted = [t \in Tasks |-> None]
    /\ ThreadsIdle
    /\ thread_safe = TRUE
    /\ iterator = NoIterator
    /\ fifo = <<>>
    /\ max_size \in {NoLimit} \cup 0..MaxSizeBound
    /\ enqueued = [e \in Enqueuers |-> 0]
    /\ attempts = 0
    /\ accepted = <<>>
    /\ received = <<>>
    /\ holder = <<>>
    /\ caller = <<>>

\* Variant of the capacity test with > in place of >=.
FifoFullStrict(s, m) == m # NoLimit /\ Len(s) > m

\* The capacity test of Queue._enqueue_unsafe.
FifoFull(s, m) == m # NoLimit /\ Len(s) >= m

\* An enqueuer thread calls Queue.enqueue(item) with its next item.
fifo_enqueue(e) ==
    LET item == ItemOf(e, enqueued[e] + 1)
    IN  /\ enqueued[e] < NumItems
        /\ enqueued' = [enqueued EXCEPT ![e] = @ + 1]
        /\ IF FifoFull(fifo, max_size)
           THEN /\ last' = Call("enqueue", item, FALSE, None, FALSE)
                /\ UNCHANGED <<fifo, accepted>>
           ELSE /\ fifo' = Append(fifo, item)
                /\ accepted' = Append(accepted, item)
                /\ last' = Call("enqueue", item, TRUE, None, FALSE)
        /\ UNCHANGED <<fifoFrame, max_size, attempts, received>>

\* Variant of the dequeue that pops at the right end of the deque.
FifoPopRight(s) == s[Len(s)]

\* Queue._dequeue_unsafe on a deque that is not empty: the item popleft
\* returns ...
FifoPopLeft(s) == s[1]
\* ... and the deque without that item.
FifoWithout(s, item) ==
    LET i == CHOOSE k \in 1..Len(s) : s[k] = item
    IN  SubSeq(s, 1, i - 1) \o SubSeq(s, i + 1, Len(s))

\* The dequeuer thread calls Queue.dequeue() and appends the item to its
\* results when it is not None.
fifo_dequeue ==
    /\ attempts < TotalItems
    /\ attempts' = attempts + 1
    /\ IF Len(fifo) = 0
       THEN /\ last' = Call("dequeue", None, FALSE, None, FALSE)
            /\ UNCHANGED <<fifo, received>>
       ELSE LET item == FifoPopLeft(fifo)
            IN  /\ fifo' = FifoWithout(fifo, item)
                /\ received' = Append(received, item)
                /\ last' = Call("dequeue", item, TRUE, None, FALSE)
    /\ UNCHANGED <<fifoFrame, max_size, enqueued, accepted>>

NextFifo ==
    \/ \E e \in Enqueuers : fifo_enqueue(e)
    \/ fifo_dequeue

SpecFifo == InitFifo /\ [][NextFifo]_vars

\* ------------------------------------------------- the locks of the orchestrator
\* ExtractionQueue(thread_safe=True) has two threading.Lock objects: its own
\* and the one of its PriorityQueue.  Each public operation is followed as
\* the sequence of "with lock:" entries and exits it makes; what it does to
\* the tasks is left out, and where the locks taken depend on the data (task
\* found or not, retry or not, queue empty or not) every branch is a plan.
\* A threading.Lock is not reentrant: acquire waits while the lock is held,
\* by any thread.
ORCH == "ExtractionQueue._lock"
QUEUE == "PriorityQueue._lock"
Locks == {ORCH, QUEUE}

Acq(l) == [do |-> "acquire", lock |-> l]
Rel(l) == [do |-> "release", lock |-> l]
\* "with lock:" around code that takes no other lock.
With(l) == <<Acq(l), Rel(l)>>

\* Variant of get_next_task that records the task in processing_tasks before
\* it leaves the queue's lock.
GetNextTaskPlansNested ==
    {With(QUEUE), <<Acq(QUEUE), Acq(ORCH), Rel(ORCH), Rel(QUEUE)>>}

\* get_next_task: dequeue under the queue's lock, then, with a task, the
\* record in processing_tasks under the orchestrator's lock.
GetNextTaskPlans == {With(QUEUE), With(QUEUE) \o With(ORCH)}

Ops == {"add_task", "get_next_task", "complete_task", "fail_task",
        "get_task_status", "get_task_result", "get_stats", "get_all_tasks", "clear"}

\* The lock entries and exits of each public operation.
LockPlans(op) ==
    CASE op = "add_task" -> {<<>>, With(QUEUE)}
      [] op = "get_next_task" -> GetNextTaskPlans
      [] op = "complete_task" -> {With(ORCH)}
      [] op = "fail_task" ->
            {With(ORCH), <<Acq(ORCH), Acq(QUEUE), Rel(QUEUE), Rel(ORCH)>>}
      [] op = "get_task_status" ->
            {<<>>, With(QUEUE), With(QUEUE) \o With(QUEUE)}
      [] op = "get_task_result" -> {<<>>}
      [] op = "get_stats" ->
            {With(QUEUE) \o With(ORCH) \o With(ORCH) \o With(ORCH)
                \o With(QUEUE) \o With(ORCH) \o With(ORCH) \o With(ORCH)}
      [] op = "get_all_tasks" ->
            {<<Acq(ORCH)>> \o With(QUEUE) \o <<Rel(ORCH)>>,
             <<Acq(ORCH)>> \o With(QUEUE) \o With(QUEUE) \o <<Rel(ORCH)>>}
      [] op = "clear" -> {<<Acq(ORCH), Acq(QUEUE), Rel(QUEUE), Rel(ORCH)>>}

lockFrame == <<attrVars, taskVars, collVars, histVars, last, concVars, pqVars, fifoVars>>

InitLock ==
    /\ pool = Tasks
    /\ priority = [t \in Tasks |-> NORMAL]
    /\ created_at = [t \in Tasks |-> t]
    /\ max_retries = [t \in Tasks |-> DefaultMaxRetries]
    /\ status = [t \in Tasks |-> PENDING]
    /\ retry_count = [t \in Tasks |-> 0]
    /\ error_message = [t \in Tasks |-> None]
    /\ result = [t \in Tasks |-> None]
    /\ items = <<>>
    /\ processing_tasks = {}
    /\ completed_tasks = {}
    /\ failed_tasks = {}
    /\ last = Call("init", None, FALSE, None, FALSE)
    /\ enqOrder = <<>>
    /\ drained = <<>>
    /\ known = {}
    /\ submitted = [t \in Tasks |-> None]
    /\ ThreadsIdle
    /\ thread_safe = TRUE
    /\ iterator = NoIterator
    /\ fifo = <<>>
    /\ max_size = NoLimit
    /\ enqueued = <<>>
    /\ attempts = 0
    /\ accepted = <<>>
    /\ received = <<>>
    /\ holder = [l \in Locks |-> None]
    /\ caller = [c \in Callers |-> [op |-> "none", todo |-> <<>>]]

\* A thread whose last call has returned calls a public operation.
lock_call(c, op, plan) ==
    /\ caller[c].todo = <<>>
    /\ plan \in LockPlans(op)
    /\ caller' = [caller EXCEPT ![c] = [op |-> op, todo |-> plan]]
    /\ UNCHANGED <<lockFrame, holder>>

\* "with lock:" is entered: the thread gets the lock when nobody holds it.
lock_acquire(c) ==
    /\ caller[c].todo # <<>>
    /\ Head(caller[c].todo).do = "acquire"
    /\ holder[Head(caller[c].todo).lock] = None
    /\ holder' = [holder EXCEPT ![Head(caller[c].todo).lock] = c]
    /\ caller' = [caller EXCEPT ![c].todo = Tail(@)]
    /\ UNCHANGED lockFrame

\* "with lock:" is left; after the last exit the call returns.
lock_release(c) ==
    /\ caller[c].todo # <<>>
    /\ Head(caller[c].todo).do = "release"
    /\ holder' = [holder EXCEPT ![Head(caller[c].todo).lock] = None]
    /\ caller' = [caller EXCEPT ![c].todo = Tail(@)]
    /\ UNCHANGED lockFrame

NextLock ==
    \/ \E c \in Callers, op \in Ops : \E plan \in LockPlans(op) : lock_call(c, op, plan)
    \/ \E c \in Callers : lock_acquire(c)
    \/ \E c \in Callers : lock_release(c)

SpecLock == InitLock /\ [][NextLock]_vars

\* ------------------------------------------------------------------- claims
InPending(t) == t \in Range(items)
Pos(s, x) == CHOOSE i \in 1..Len(s) : s[i] = x
SameKey(a, b) == priority[a] = priority[b] /\ created_at[a] = created_at[b]

\* C1: the tasks returned by successive get_next_task calls after a series
\* of add_task calls come out in non-decreasing priority value and, within
\* one priority, in non-decreasing created_at.
C1_PriorityOrder ==
    \A i, j \in 1..Len(drained) :
        i < j =>
            /\ priority[drained[i]] <= priority[drained[j]]
            /\ priority[drained[i]] = priority[drained[j]]
                    => created_at[drained[i]] <= created_at[drained[j]]

\* The whole pool was added and drained, an URGENT task first and a LOW one last.
C1_Witness ==
    /\ Len(drained) = NumQueued
    /\ items = <<>>
    /\ priority[drained[1]] = URGENT
    /\ priority[drained[Len(drained)]] = LOW

\* C2: enqueue is stable: when a task is dequeued, no task of equal
\* (priority, created_at) that is still queued was enqueued before it.
C2_Stable ==
    [][(last'.op = "get_next_task" /\ last'.ok) =>
            \A u \in Range(items') :
                SameKey(u, last'.id) =>
                    Pos(enqOrder, last'.id) < Pos(enqOrder, u)]_vars

\* A task was dequeued while a task of equal key and a task of another key
\* stayed queued.
C2_Witness ==
    /\ last.op = "get_next_task"
    /\ last.ok
    /\ \E u \in Range(items) : SameKey(u, last.id)
    /\ \E u \in Range(items) : ~SameKey(u, last.id)

\* Number of collections (pending occurrences counted) that hold the id.
Memberships(t) ==
    Cardinality({i \in 1..Len(items) : items[i] = t})
        + (IF t \in processing_tasks THEN 1 ELSE 0)
        + (IF t \in completed_tasks THEN 1 ELSE 0)
        + (IF t \in failed_tasks THEN 1 ELSE 0)

\* C3: partition invariant: after every public operation each id is in at
\* most one of pending, processing, completed, failed, and an id that was
\* added and not cleared is in exactly one.
C3_Partition ==
    \A t \in pool :
        /\ Memberships(t) <= 1
        /\ t \in known => Memberships(t) = 1

\* Every task of the pool is held, one processing and one failed.
C3_Witness ==
    /\ known = pool
    /\ processing_tasks # {}
    /\ failed_tasks # {}

\* C4 (as claimed): with max_retries = N, fail_task(retry=True) returns true
\* for the first N failures of a task and false on the (N+1)-th, where the
\* task becomes FAILED.
C4_RetriesAsClaimed ==
    [][(last'.op = "fail_task" /\ last'.retry /\ last'.id \in processing_tasks) =>
            LET t == last'.id
                failures == retry_count'[t]
            IN  /\ failures <= max_retries[t] => last'.ok /\ status'[t] = PENDING
                /\ failures = max_retries[t] + 1 => ~last'.ok /\ status'[t] = FAILED]_vars

C6_RetryCountBounded ==
    \A t \in pool : retry_count[t] <= max_retries[t]

C8_RejectNotProcessing ==
    [][(last'.op \in {"complete_task", "fail_task"}
            /\ last'.id \notin processing_tasks) =>
            /\ ~last'.ok
            /\ UNCHANGED <<items, processing_tasks, completed_tasks, failed_tasks>>
            /\ UNCHANGED <<status, retry_count, error_message, result>>]_vars

\* A second complete_task on a completed id, with another result, was rejected.
C8_Witness ==
    /\ last.op = "complete_task"
    /\ ~last.ok
    /\ last.id \in completed_tasks
    /\ last.val # result[last.id]

\* C9: add_task of a task that is not PENDING returns false and leaves the
\* queue and the three maps unchanged; add_task of a PENDING task returns
\* true and makes the pending count one larger.
C9_AddTask ==
    [][last'.op = "add_task" =>
            IF status[last'.id] # PENDING
            THEN /\ ~last'.ok
                 /\ UNCHANGED <<items, processing_tasks, completed_tasks, failed_tasks>>
            ELSE /\ last'.ok
                 /\ Len(items') = Len(items) + 1
                 /\ UNCHANGED <<processing_tasks, completed_tasks, failed_tasks>>]_vars

\* add_task of a task that is being processed was rejected.
C9_Witness ==
    /\ last.op = "add_task"
    /\ ~last.ok
    /\ status[last.id] = PROCESSING
    /\ last.id \in processing_tasks

\* C10: get_task_result(id) is the result passed to the successful
\* complete_task(id, r) since the last clear, and None for an id with no
\* such call (unknown, pending, processing, failed, cleared).
C10_TaskResult ==
    /\ \A t \in pool : TaskResult(t) = submitted[t]
    /\ last.op = "get_task_result" => last.val = submitted[last.id]

\* get_task_result returned the second payload for a completed id.
C10_Witness ==
    /\ last.op = "get_task_result"
    /\ last.id \in completed_tasks
    /\ last.val = NumResults
    /\ submitted[last.id] = NumResults

ExpectedStatus(t) ==
    IF InPending(t) THEN PENDING
    ELSE IF t \in processing_tasks THEN PROCESSING
    ELSE IF t \in completed_tasks THEN COMPLETED
    ELSE IF t \in failed_tasks THEN FAILED
    ELSE NotFound

\* C17: get_task_status(id) returns the status of the collection that holds
\* the id, NotFound when no collection holds it, and changes nothing.
C17_TaskStatus ==
    [][last'.op = "get_task_status" =>
            /\ last'.st = ExpectedStatus(last'.id)
            /\ UNCHANGED <<items, processing_tasks, completed_tasks, failed_tasks>>
            /\ UNCHANGED <<status, retry_count, error_message, result>>]_vars

\* get_task_status answered PENDING for a task requeued after a failure.
C17_Witness ==
    /\ last.op = "get_task_status"
    /\ last.st = PENDING
    /\ InPending(last.id)
    /\ retry_count[last.id] > 0

\* C18: after clear the queue and the three maps are empty, every count of
\* get_stats is 0, and get_task_status and get_task_result find no id.
C18_Clear ==
    last.op = "clear" =>
        /\ items = <<>>
        /\ processing_tasks = {}
        /\ completed_tasks = {}
        /\ failed_tasks = {}
        /\ Stats = [pending |-> 0, processing |-> 0, completed |-> 0,
                    failed |-> 0, total |-> 0]
        /\ \A t \in pool : TaskStatusOf(t) = NotFound /\ TaskResult(t) = None

\* clear ran on an orchestrator that held a completed and a processing task.
C18_Witness ==
    /\ last.op = "clear"
    /\ \E t \in pool : status[t] = COMPLETED /\ result[t] # None
    /\ \E t \in pool : status[t] = PROCESSING

\* C19: a task requeued by fail_task keeps its priority and created_at as
\* sort key: whenever get_next_task returns a task, no task left in the
\* queue has a smaller (priority, created_at), where one of the two is a
\* task that was requeued.
C19_RetryKeepsKey ==
    (last.op = "get_next_task" /\ last.ok) =>
        \A u \in Range(items) :
            (retry_count[last.id] > 0 \/ retry_count[u] > 0) =>
                /\ priority[last.id] <= priority[u]
                /\ priority[last.id] = priority[u]
                        => created_at[last.id] <= created_at[u]

\* A requeued task came out before a fresh task of its priority with a
\* later created_at and after nothing of higher priority.
C19_Witness ==
    /\ last.op = "get_next_task"
    /\ last.ok
    /\ retry_count[last.id] > 0
    /\ \E u \in Range(items) :
            /\ retry_count[u] = 0
            /\ priority[u] = priority[last.id]
            /\ created_at[u] > created_at[last.id]

\* C20: the status of every task is PENDING, PROCESSING, COMPLETED or
\* FAILED; no operation produces CANCELLED.
C20_FourStatuses ==
    \A t \in pool :
        /\ status[t] \in {PENDING, PROCESSING, COMPLETED, FAILED}
        /\ status[t] # CANCELLED

\* One task ended FAILED and another COMPLETED.
C20_Witness ==
    /\ \E t \in failed_tasks : status[t] = FAILED
    /\ \E t \in completed_tasks : status[t] = COMPLETED

\* The tasks the consumers are holding: dequeued and not yet completed.
HeldBy(c) == cons[c].task

\* C11: in thread-safe mode, under every interleaving of add_task,
\* get_next_task and complete_task calls from several threads on distinct
\* task ids, no task id is returned by get_next_task to two callers: a task
\* is handed out at most once per time it was put in the pending queue (here
\* once, after its add_task), and never before it was added.
C11_NoDuplicateDequeue ==
    /\ \A t \in pool : handed[t] <= IF t \in known THEN 1 ELSE 0
    /\ \A c1, c2 \in Consumers :
           c1 # c2 /\ HeldBy(c1) # None => HeldBy(c1) # HeldBy(c2)

\* Two consumers are inside get_next_task at the same time, each with a task
\* it has just dequeued.
C11_Witness ==
    \E c1, c2 \in Consumers :
        /\ c1 # c2
        /\ cons[c1].pc = "dequeued"
        /\ cons[c2].pc = "dequeued"
        /\ handed[HeldBy(c1)] = 1
        /\ handed[HeldBy(c2)] = 1

StatsReturned == obs.pc = "returned" /\ obs.op = "get_stats"
StatusReturned == obs.pc = "returned" /\ obs.op = "get_task_status"

\* C12: in thread-safe mode, under every interleaving of add_task,
\* get_next_task and complete_task calls from several threads, the total
\* returned by a get_stats call equals the number of distinct task ids whose
\* add_task has completed: at least the number added when get_stats was
\* called and at most the number added when it returned.
C12_TotalConserved ==
    StatsReturned => obs.before <= obs.total /\ obs.total <= obs.after

\* C13: in thread-safe mode the dictionary returned by get_stats is a read
\* of one single state: its total is the sum of its pending, processing,
\* completed and failed fields.
C13_StatsOneState ==
    StatsReturned =>
        obs.total = obs.pending + obs.processing + obs.completed + obs.failed

\* C14: in thread-safe mode no get_task_status call observes a partially
\* updated partition: for a task that was added (and not cleared) before the
\* call, get_task_status never returns not-found.
C14_NeverAbsent ==
    StatusReturned /\ obs.wasKnown => obs.st # NotFound

\* The producer has added every task and every consumer has made all its
\* attempts: the threads have finished.
ThreadsDone ==
    /\ prod.pc = "idle"
    /\ known = pool
    /\ \A c \in Consumers : cons[c].pc = "idle" /\ cons[c].left = 0

\* C15: after a producer thread has added n distinct tasks and the consumers
\* have each made n attempts of get_next_task followed by complete_task on
\* the task received, and all threads have finished, completed + pending = n:
\* no task is lost, counted twice or left in processing.
C15_ProducerConsumer ==
    ThreadsDone =>
        /\ Stats.completed + Stats.pending = Cardinality(pool)
        /\ Stats.processing = 0
        /\ Stats.total = Cardinality(pool)

\* The threads have finished with one task completed and one never received
\* (attempts were made on an empty queue).
C15_Witness ==
    /\ ThreadsDone
    /\ Stats.completed >= 1
    /\ Stats.pending >= 1

\* The status of task t goes from a to b in this step, by the call op.
Moves(t, a, b, op) == status[t] = a /\ status'[t] = b /\ last'.op = op

C27_Sorted ==
    \A i, j \in 1..Len(items) : i < j => ~TaskLt(items[j], items[i])

\* The list holds the whole pool, a requeued task among it, with items of
\* different priorities and two items of one priority.
C27_Witness ==
    /\ Len(items) = NumQueued
    /\ \E i \in 1..Len(items) : retry_count[items[i]] > 0
    /\ priority[items[1]] < priority[items[Len(items)]]
    /\ \E i \in 1..(Len(items) - 1) :
           /\ priority[items[i]] = priority[items[i + 1]]
           /\ created_at[items[i]] < created_at[items[i + 1]]

\* C28: fail_task(id, reason, retry=False) on a processing task makes it
\* FAILED at once, whatever retry budget remains: it is stored in failed, not
\* requeued, the call returns false, retry_count is incremented by one and
\* the reason is stored as error_message.
C28_FailNoRetry ==
    [][(last'.op = "fail_task" /\ ~last'.retry /\ last'.id \in processing_tasks) =>
            LET t == last'.id
            IN  /\ ~last'.ok
                /\ status'[t] = FAILED
                /\ t \in failed_tasks'
                /\ t \notin processing_tasks'
                /\ t \notin Range(items')
                /\ items' = items
                /\ retry_count'[t] = retry_count[t] + 1
                /\ error_message'[t] = last'.val]_vars

\* A processing task with retry budget left has just been failed with
\* retry=False on its first failure.
C28_Witness ==
    /\ last.op = "fail_task"
    /\ ~last.retry
    /\ ~last.ok
    /\ status[last.id] = FAILED
    /\ last.id \in failed_tasks
    /\ retry_count[last.id] = 1
    /\ max_retries[last.id] = MaxRetriesBound
    /\ error_message[last.id] = last.val

\* Nothing is pending or processing and every added task is in completed or
\* failed.
Resolved ==
    /\ items = <<>>
    /\ processing_tasks = {}
    /\ known \subseteq completed_tasks \cup failed_tasks

\* Largest number of times get_next_task returns a task of this budget.
MaxHandOuts(maxr) == IF maxr > 1 THEN maxr ELSE 1

IsPrefix(a, b) == Len(a) <= Len(b) /\ a = SubSeq(b, 1, Len(a))

\* C22: iterating a PriorityQueue yields the items the queue held, in
\* priority order, at the moment the iteration started: enqueue, dequeue or
\* clear performed while the iteration is in progress does not change the
\* items it yields, in thread-safe and in single-threaded mode.
C22_Snapshot ==
    /\ iterator.state = "active" => IsPrefix(iterator.out, iterator.start)
    /\ iterator.state = "exhausted" => iterator.out = iterator.start

\* C23: peek returns the item that the next dequeue would return and leaves
\* the queue's contents and size unchanged; on an empty queue peek, like
\* dequeue, returns None.
C23_Peek ==
    [][last'.op = "peek" =>
            /\ items' = items
            /\ Len(items') = Len(items)
            /\ last'.id = DequeueItem(items')
            /\ Len(items) = 0 => last'.id = None /\ DequeueItem(items) = None]_vars

\* peek has returned the front of a queue holding the whole pool, a task
\* that was not the first one enqueued.
C23_Witness ==
    /\ last.op = "peek"
    /\ last.ok
    /\ Len(items) = NumQueued
    /\ last.id = items[1]
    /\ last.id # 1
    /\ priority[last.id] < priority[items[Len(items)]]

\* C24: the FIFO Queue returns items from dequeue in exactly the order in
\* which enqueue accepted them, for every interleaved sequence of enqueue and
\* dequeue calls, and returns None when it is empty: each dequeue returns the
\* oldest accepted item not yet returned.
C24_FifoOrder ==
    [][attempts' # attempts =>
            IF Len(received) = Len(accepted)
            THEN last'.id = None /\ ~last'.ok /\ Len(fifo) = 0
            ELSE /\ last'.id = accepted[Len(received) + 1]
                 /\ received' = SubSeq(accepted, 1, Len(received) + 1)]_vars

\* Three items have come out while enqueues went on, in the order they were
\* accepted, which is not the order of their values; one is still queued.
C24_Witness ==
    /\ Len(received) = 3
    /\ Len(fifo) = 1
    /\ received[1] > received[2]
    /\ received = SubSeq(accepted, 1, 3)

FifoThreadsDone ==
    /\ \A e \in Enqueuers : enqueued[e] = NumItems
    /\ attempts = TotalItems

\* C26: with a thread-safe Queue, when n enqueues and n concurrent dequeue
\* attempts have been made and the threads have finished, the dequeuing
\* thread has received all n items, each once.
C26_AllReceived ==
    (FifoThreadsDone /\ max_size = NoLimit) =>
        /\ Len(received) = TotalItems
        /\ Range(received) = Range(accepted)

InCall(c) == caller[c].todo # <<>>
\* The thread is at the entry of "with l:".
WaitsFor(c, l) == InCall(c) /\ Head(caller[c].todo) = Acq(l)
\* The thread can take its next step.
CanStep(c) ==
    /\ InCall(c)
    /\ Head(caller[c].todo).do = "acquire" => holder[Head(caller[c].todo).lock] = None

\* C30: deadlock freedom in thread-safe mode: the two locks are only nested
\* in the order orchestrator lock then queue lock, never in the reverse
\* order, no operation re-acquires a lock it holds, and in every
\* interleaving of public operations from several threads, whenever calls
\* are in progress one of them can go on (each call can return).
C30_DeadlockFree ==
    /\ \A c \in Callers : holder[QUEUE] = c => ~WaitsFor(c, ORCH)
    /\ \A c \in Callers, l \in Locks : WaitsFor(c, l) => holder[l] # c
    /\ (\E c \in Callers : InCall(c)) => \E c \in Callers : CanStep(c)

\* One thread holds the orchestrator's lock and waits for the queue's lock,
\* which another thread holds.
C30_Witness ==
    \E c, d \in Callers :
        /\ c # d
        /\ holder[ORCH] = c
        /\ WaitsFor(c, QUEUE)
        /\ holder[QUEUE] = d
        /\ CanStep(d)

====
